---------------------------- MODULE Spec2Model ----------------------------
(***************************************************************************)
(* A model of GRPCVisitor (src/index.ts): the visitor that writes a        *)
(* proto3 file for a WIDL document.  Every visitor callback is one action; *)
(* the callbacks themselves are operators on the visitor's state (the text *)
(* written so far, the requestTypes array and the exception in flight), so *)
(* that visitDocumentAfter can call the type callbacks the way             *)
(* TypeDefinition.accept does.                                             *)
(***************************************************************************)
EXTENDS Naturals, Sequences, FiniteSets, TLC

VARIABLES
    doc,           \* the definitions of the document being traversed, in declaration order
    docNo,         \* how many documents this visitor instance has been given
    pending,       \* the callbacks the traversal still has to make, in order
    out,           \* the write() calls made for the current document, in order
    requestTypes,  \* GRPCVisitor.requestTypes
    thrown,        \* the message of the Error that ended the traversal, or NoError
    carried,       \* requestTypes as it was when the current document began
    sigIn,         \* the Type handed to typeSignature (resolver specification)
    sigOut         \* what typeSignature gave for sigIn, or NotCalled

vars == <<doc, docNo, pending, out, requestTypes, thrown, carried, sigIn, sigOut>>

-----------------------------------------------------------------------------
(* Bounds *)

\* a document holds at most MaxDefs top-level definitions
MaxDefs == 3

\* a document given to a visitor that is used again holds at most MaxReuseDefs
MaxReuseDefs == 1

\* one visitor instance is given at most MaxDocs documents
MaxDocs == 2

\* a Type handed to the resolver nests at most MaxDepth wrappers
MaxDepth == 2

-----------------------------------------------------------------------------
(* Types: the four variants of Type, and a node of any other kind *)

Named(n) == [kind |-> "Named", name |-> n]

ListType(t) == [kind |-> "ListType", type |-> t]

MapType(k, v) == [kind |-> "MapType", keyType |-> k, valueType |-> v]

Optional(t) == [kind |-> "Optional", type |-> t]

\* a node whose getKind() is none of the four
OtherKind == [kind |-> "Name"]

\* the result of a call that returns a string or throws
Returned(s) == [threw |-> FALSE, value |-> s]

Threw(msg) == [threw |-> TRUE, value |-> msg]

\* JavaScript's undefined, among strings
Undefined == "<undefined>"

NoError == ""

scalarTypeMap_I64 ==
    [i8 |-> "int32", i16 |-> "int32", i32 |-> "int32", i64 |-> "int32",
     u8 |-> "uint32", u16 |-> "uint32", u32 |-> "uint32", u64 |-> "uint64",
     f32 |-> "float", f64 |-> "double", string |-> "string", bytes |-> "bytes",
     boolean |-> "bool", date |-> "google.protobuf.Timestamp",
     datetime |-> "google.protobuf.Timestamp", raw |-> "google.protobuf.Any"]

scalarTypeMap ==
    [i8 |-> "int32", i16 |-> "int32", i32 |-> "int32", i64 |-> "int64",
     u8 |-> "uint32", u16 |-> "uint32", u32 |-> "uint32", u64 |-> "uint64",
     f32 |-> "float", f64 |-> "double", string |-> "string", bytes |-> "bytes",
     boolean |-> "bool", date |-> "google.protobuf.Timestamp",
     datetime |-> "google.protobuf.Timestamp", raw |-> "google.protobuf.Any"]

\* Map.prototype.get
MapGet(m, k) == IF k \in DOMAIN m THEN m[k] ELSE Undefined

\* a || b on strings
OrElse(a, b) == IF a = Undefined \/ a = "" THEN b ELSE a

RECURSIVE typeSignature(_)
typeSignature(type) ==
    CASE type.kind = "Named" ->
            Returned(OrElse(MapGet(scalarTypeMap, type.name), type.name))
      [] type.kind = "ListType" ->
            LET inner == typeSignature(type.type)
            IN  IF inner.threw THEN inner ELSE Returned("repeated " \o inner.value)
      [] type.kind = "MapType" ->
            LET k == typeSignature(type.keyType)
                v == typeSignature(type.valueType)
            IN  IF k.threw THEN k
                ELSE IF v.threw THEN v
                ELSE Returned("map<" \o k.value \o ", " \o v.value \o ">")
      [] type.kind = "Optional" ->
            LET inner == typeSignature(type.type)
            IN  IF inner.threw THEN inner ELSE Returned("optional " \o inner.value)
      [] OTHER -> Threw("unexpected kind: " \o type.kind)

-----------------------------------------------------------------------------
(* The naming helpers of @wapc/widl-codegen/utils, on the identifiers the  *)
(* documents below use: an identifier is split into its lower-case words.  *)

Words ==
    [add |-> <<"add">>, ping |-> <<"ping">>, reset |-> <<"reset">>,
     getUser |-> <<"get", "user">>, listAll |-> <<"list", "all">>,
     point |-> <<"point">>, Point |-> <<"point">>, Circle |-> <<"circle">>,
     UserInfo |-> <<"user", "info">>, color |-> <<"color">>,
     shape |-> <<"shape">>, many |-> <<"many">>,
     x |-> <<"x">>, y |-> <<"y">>, a |-> <<"a">>, b |-> <<"b">>,
     id |-> <<"id">>, userId |-> <<"user", "id">>, tags |-> <<"tags">>,
     email |-> <<"email">>, red |-> <<"red">>, darkBlue |-> <<"dark", "blue">>,
     i32 |-> <<"i32">>, force |-> <<"force">>,
     AddRequest |-> <<"add", "request">>, PingRequest |-> <<"ping", "request">>,
     ResetRequest |-> <<"reset", "request">>,
     GetUserRequest |-> <<"get", "user", "request">>,
     ListAllRequest |-> <<"list", "all", "request">>]

Capital ==
    [add |-> "Add", ping |-> "Ping", reset |-> "Reset", get |-> "Get",
     user |-> "User", list |-> "List", all |-> "All", point |-> "Point",
     circle |-> "Circle", info |-> "Info", color |-> "Color", shape |-> "Shape",
     many |-> "Many", x |-> "X", y |-> "Y", a |-> "A", b |-> "B", id |-> "Id",
     tags |-> "Tags", email |-> "Email", red |-> "Red", dark |-> "Dark",
     blue |-> "Blue", i32 |-> "I32", force |-> "Force", request |-> "Request"]

Upper ==
    [red |-> "RED", dark |-> "DARK", blue |-> "BLUE", color |-> "COLOR"]

RECURSIVE Join(_, _)
Join(ws, sep) ==
    IF ws = <<>> THEN ""
    ELSE IF Len(ws) = 1 THEN ws[1]
    ELSE ws[1] \o sep \o Join(Tail(ws), sep)

pascalCase(str) == Join([i \in DOMAIN Words[str] |-> Capital[Words[str][i]]], "")

snakeCase(str) == Join(Words[str], "_")

\* snakeCase(str).toUpperCase()
upperSnakeCase(str) == Join([i \in DOMAIN Words[str] |-> Upper[Words[str][i]]], "_")

NoDescription == Undefined

formatComment(prefix, description) ==
    IF description = NoDescription THEN "" ELSE prefix \o description \o "\n"

-----------------------------------------------------------------------------
(* AST nodes.  A loc names the node: the document, the position of the     *)
(* top-level definition in it, the operation in the role and the field,    *)
(* parameter, enum value or union member in that (0 where it has none).    *)

Loc(n, i, j, k) == [doc |-> n, def |-> i, op |-> j, item |-> k]

NoLoc == Loc(0, 0, 0, 0)

Annotation(n, v) == [name |-> n, value |-> v]

NoAnnotation == Annotation(Undefined, 0)

\* AbstractNode.annotation(name): the first annotation of that name
annotation(node, n) ==
    LET hits == SelectSeq(node.annotations, LAMBDA an : an.name = n)
    IN  IF hits = <<>> THEN NoAnnotation ELSE hits[1]

FieldDefinition(loc, name, description, type, default, annotations) ==
    [kind |-> "FieldDefinition", loc |-> loc, name |-> name,
     description |-> description, type |-> type, default |-> default,
     annotations |-> annotations]

ParameterDefinition(name, type, annotations) ==
    [kind |-> "ParameterDefinition", loc |-> NoLoc, name |-> name,
     description |-> NoDescription, type |-> type, default |-> Undefined,
     annotations |-> annotations]

TypeDefinition(loc, name, description, interfaces, annotations, fields) ==
    [kind |-> "TypeDefinition", loc |-> loc, name |-> name,
     description |-> description, interfaces |-> interfaces,
     annotations |-> annotations, fields |-> fields]

OperationDefinition(name, description, parameters, type, unary) ==
    [kind |-> "OperationDefinition", loc |-> NoLoc, name |-> name,
     description |-> description, parameters |-> parameters, type |-> type,
     unary |-> unary, annotations |-> <<>>]

RoleDefinition(name, description, operations) ==
    [kind |-> "RoleDefinition", loc |-> NoLoc, name |-> name,
     description |-> description, operations |-> operations]

EnumValueDefinition(name, index) ==
    [kind |-> "EnumValueDefinition", loc |-> NoLoc, name |-> name,
     description |-> NoDescription, index |-> index]

EnumDefinition(name, description, values) ==
    [kind |-> "EnumDefinition", loc |-> NoLoc, name |-> name,
     description |-> description, values |-> values]

UnionDefinition(name, description, types) ==
    [kind |-> "UnionDefinition", loc |-> NoLoc, name |-> name,
     description |-> description, types |-> types]

FieldNum(n) == <<Annotation("fieldnum", n)>>

-----------------------------------------------------------------------------
(* The collaborators of the visitor *)

\* the roles the configuration asks handlers for
HandlerRoles == {"Calc", "Users", "Broken"}

\* shouldIncludeHandler(context): decided by the role in the context
shouldIncludeHandler(context) == context.role.name \in HandlerRoles

\* isVoid(t): the return type that denotes no value
isVoid(t) == t.kind = "Named" /\ t.name = "void"

-----------------------------------------------------------------------------
(* The visitor.  v is the visitor's state: the write() calls made so far,  *)
(* requestTypes, and the message of the Error thrown (NoError while none   *)
(* is); once an Error is thrown no later statement runs.                   *)

Chunk(by, part, loc, text) == [by |-> by, part |-> part, loc |-> loc, text |-> text]

\* this.write(text), made by callback `by` for the node at loc (an empty
\* text adds nothing to the output)
write(v, by, part, loc, text) ==
    IF v.thrown # NoError \/ text = "" THEN v
    ELSE [v EXCEPT !.out = Append(@, Chunk(by, part, loc, text))]

throw(v, msg) == IF v.thrown # NoError THEN v ELSE [v EXCEPT !.thrown = msg]

\* write the string a call returned, or propagate what it threw
writeResult(v, by, part, loc, r) ==
    IF r.threw THEN throw(v, r.value) ELSE write(v, by, part, loc, r.value)

visitDocumentBefore_NoSyntax(v, context) == v

visitDocumentBefore(v, context) ==
    write(v, "visitDocumentBefore", "syntax", context.document.loc,
          "syntax = \"proto3\";\n\n")

visitNamespace(v, context) ==
    write(v, "visitNamespace", "package", context.document.loc,
          "package " \o context.namespace.name \o ";\n\n")

visitRoleBefore(v, context) ==
    IF ~shouldIncludeHandler(context) THEN v
    ELSE LET role == context.role
             v1 == write(v, "visitRoleBefore", "comment", role.loc,
                         formatComment("// ", role.description))
         IN  write(v1, "visitRoleBefore", "header", role.loc,
                   "service " \o role.name \o " {\n")

visitRoleAfter(v, context) ==
    IF ~shouldIncludeHandler(context) THEN v
    ELSE write(v, "visitRoleAfter", "close", context.role.loc, "}\n\n")

convertOperationToType_DropLast(operation) ==
    TypeDefinition(
        operation.loc,
        pascalCase(operation.name) \o "Request",
        "Request for the " \o pascalCase(operation.name) \o " operation.",
        <<>>,
        operation.annotations,
        [i \in 1..(IF operation.parameters = <<>> THEN 0
                   ELSE Len(operation.parameters) - 1) |->
            LET param == operation.parameters[i]
            IN  FieldDefinition(param.loc, param.name, param.description,
                                param.type, param.default, param.annotations)])

convertOperationToType(operation) ==
    LET fields ==
            [i \in DOMAIN operation.parameters |->
                LET param == operation.parameters[i]
                IN  FieldDefinition(param.loc, param.name, param.description,
                                    param.type, param.default, param.annotations)]
    IN  TypeDefinition(
            operation.loc,
            pascalCase(operation.name) \o "Request",
            "Request for the " \o pascalCase(operation.name) \o " operation.",
            <<>>,
            operation.annotations,
            fields)

\* the request type of the rpc line: always the synthesized request
writeRequestType_AlwaysSynth(v, oper) ==
    IF v.thrown # NoError THEN v
    ELSE write([v EXCEPT !.requestTypes = Append(@, convertOperationToType(oper))],
               "visitOperationBefore", "request", oper.loc,
               pascalCase(oper.name) \o "Request")

\* the request type of the rpc line (the if on oper.unary)
writeRequestType(v, oper) ==
    IF v.thrown # NoError THEN v
    ELSE IF oper.unary
    THEN IF oper.parameters = <<>>
         THEN throw(v, "TypeError: Cannot read property 'type' of undefined")
         ELSE writeResult(v, "visitOperationBefore", "request", oper.loc,
                          typeSignature(oper.parameters[1].type))
    ELSE write([v EXCEPT !.requestTypes = Append(@, convertOperationToType(oper))],
               "visitOperationBefore", "request", oper.loc,
               pascalCase(oper.name) \o "Request")

\* the response type of the rpc line: Empty for every unary operation
writeResponseType_UnaryEmpty(v, oper) ==
    IF isVoid(oper.type) \/ oper.unary
    THEN write(v, "visitOperationBefore", "response", oper.loc, "Empty")
    ELSE writeResult(v, "visitOperationBefore", "response", oper.loc,
                     typeSignature(oper.type))

\* the response type of the rpc line (the if on isVoid)
writeResponseType(v, oper) ==
    IF v.thrown # NoError THEN v
    ELSE IF isVoid(oper.type)
    THEN write(v, "visitOperationBefore", "response", oper.loc, "Empty")
    ELSE writeResult(v, "visitOperationBefore", "response", oper.loc,
                     typeSignature(oper.type))

\* the statements of visitOperationBefore after its guard
rpcLine(v, oper) ==
    LET v1 == write(v, "visitOperationBefore", "comment", oper.loc,
                    formatComment("  // ", oper.description))
        v2 == write(v1, "visitOperationBefore", "rpc", oper.loc,
                    "  rpc " \o pascalCase(oper.name) \o "(")
        v3 == writeRequestType(v2, oper)
        v4 == write(v3, "visitOperationBefore", "returns", oper.loc, ") returns (")
        v5 == writeResponseType(v4, oper)
    IN  write(v5, "visitOperationBefore", "end", oper.loc, ");\n")

visitOperationBefore_NoGuard(v, context) == rpcLine(v, context.operation)

\* the fieldnum of every parameter is checked when the operation is visited
visitOperationBefore_Eager(v, context) ==
    IF ~shouldIncludeHandler(context) THEN v
    ELSE LET oper == context.operation
             bad == {i \in DOMAIN oper.parameters :
                        annotation(oper.parameters[i], "fieldnum") = NoAnnotation}
         IN  IF ~oper.unary /\ bad # {}
             THEN throw(v, pascalCase(oper.name) \o "Request."
                             \o oper.parameters[CHOOSE i \in bad :
                                                   \A j \in bad : i <= j].name
                             \o " requires a @fieldnum")
             ELSE rpcLine(v, oper)

visitOperationBefore(v, context) ==
    IF ~shouldIncludeHandler(context) THEN v
    ELSE rpcLine(v, context.operation)

visitOperationAfter(v, context) == v

visitTypeBefore(v, context) ==
    LET type == context.type
        v1 == write(v, "visitTypeBefore", "comment", type.loc,
                    formatComment("// ", type.description))
    IN  write(v1, "visitTypeBefore", "header", type.loc,
              "message " \o pascalCase(type.name) \o " {\n")

\* a field without the annotation is written with number 0
visitTypeField_NoCheck(v, context) ==
    LET field == context.field
        fieldnum == annotation(field, "fieldnum")
        v1 == write(v, "visitTypeField", "comment", field.loc,
                    formatComment("  // ", field.description))
        sig == typeSignature(field.type)
    IN  IF sig.threw THEN throw(v1, sig.value)
        ELSE write(v1, "visitTypeField", "field", field.loc,
                   "  " \o sig.value \o " " \o snakeCase(field.name) \o " = "
                        \o ToString(fieldnum.value) \o ";\n")

visitTypeField(v, context) ==
    LET type == context.type
        field == context.field
        fieldnumAnnotation == annotation(field, "fieldnum")
    IN  IF fieldnumAnnotation = NoAnnotation
        THEN throw(v, type.name \o "." \o field.name \o " requires a @fieldnum")
        ELSE LET v1 == write(v, "visitTypeField", "comment", field.loc,
                             formatComment("  // ", field.description))
                 sig == typeSignature(field.type)
             IN  IF sig.threw THEN throw(v1, sig.value)
                 ELSE write(v1, "visitTypeField", "field", field.loc,
                            "  " \o sig.value \o " " \o snakeCase(field.name) \o " = "
                                 \o ToString(fieldnumAnnotation.value) \o ";\n")

visitTypeAfter(v, context) ==
    write(v, "visitTypeAfter", "close", context.type.loc, "}\n\n")

visitEnumBefore(v, context) ==
    LET e == context.enum
        v1 == write(v, "visitEnumBefore", "comment", e.loc,
                    formatComment("// ", e.description))
    IN  write(v1, "visitEnumBefore", "header", e.loc,
              "enum " \o pascalCase(e.name) \o " {\n")

visitEnumValue(v, context) ==
    LET ev == context.enumValue
        v1 == write(v, "visitEnumValue", "comment", ev.loc,
                    formatComment("  // ", ev.description))
    IN  write(v1, "visitEnumValue", "value", ev.loc,
              "  " \o upperSnakeCase(ev.name) \o " = " \o ToString(ev.index) \o ";\n")

visitEnumAfter(v, context) ==
    write(v, "visitEnumAfter", "close", context.enum.loc, "}\n\n")

\* the for loop of visitUnion, from member i on
RECURSIVE unionMembers(_, _, _)
unionMembers(v, u, i) ==
    IF i > Len(u.types) \/ v.thrown # NoError THEN v
    ELSE LET t == u.types[i]
             sig == typeSignature(t)
             v1 == IF sig.threw THEN throw(v, sig.value)
                   ELSE IF t.kind # "Named"
                   THEN throw(v, "TypeError: Cannot read property 'value' of undefined")
                   ELSE write(v, "visitUnion", "member",
                              [u.loc EXCEPT !.item = i],
                              "    " \o sig.value \o " " \o snakeCase(t.name)
                                   \o "_value = " \o ToString(i) \o ";\n")
         IN  unionMembers(v1, u, i + 1)

\* the members are numbered from 0
RECURSIVE unionMembers_FromZero(_, _, _)
unionMembers_FromZero(v, u, i) ==
    IF i > Len(u.types) \/ v.thrown # NoError THEN v
    ELSE LET t == u.types[i]
             sig == typeSignature(t)
             v1 == IF sig.threw THEN throw(v, sig.value)
                   ELSE IF t.kind # "Named"
                   THEN throw(v, "TypeError: Cannot read property 'value' of undefined")
                   ELSE write(v, "visitUnion", "member",
                              [u.loc EXCEPT !.item = i],
                              "    " \o sig.value \o " " \o snakeCase(t.name)
                                   \o "_value = " \o ToString(i - 1) \o ";\n")
         IN  unionMembers_FromZero(v1, u, i + 1)

visitUnion_FromZero(v, context) ==
    LET u == context.union
        v1 == write(v, "visitUnion", "comment", u.loc,
                    formatComment("// ", u.description))
        v2 == write(v1, "visitUnion", "header", u.loc,
                    "message " \o pascalCase(u.name) \o " {\n")
        v3 == write(v2, "visitUnion", "oneof", u.loc, "  oneof oneof {\n")
        v4 == unionMembers_FromZero(v3, u, 1)
        v5 == write(v4, "visitUnion", "oneofClose", u.loc, "  }\n")
    IN  write(v5, "visitUnion", "close", u.loc, "}\n\n")

visitUnion(v, context) ==
    LET u == context.union
        v1 == write(v, "visitUnion", "comment", u.loc,
                    formatComment("// ", u.description))
        v2 == write(v1, "visitUnion", "header", u.loc,
                    "message " \o pascalCase(u.name) \o " {\n")
        v3 == write(v2, "visitUnion", "oneof", u.loc, "  oneof oneof {\n")
        v4 == unionMembers(v3, u, 1)
        v5 == write(v4, "visitUnion", "oneofClose", u.loc, "  }\n")
    IN  write(v5, "visitUnion", "close", u.loc, "}\n\n")

\* TypeDefinition.accept, from field i on: visitTypeField for each field
RECURSIVE acceptFields(_, _, _)
acceptFields(v, type, i) ==
    IF i > Len(type.fields) \/ v.thrown # NoError THEN v
    ELSE acceptFields(visitTypeField(v, [type |-> type, field |-> type.fields[i]]),
                      type, i + 1)

\* TypeDefinition.accept(context, visitor)
acceptType(v, type) ==
    LET v1 == visitTypeBefore(v, [type |-> type])
        v2 == acceptFields(v1, type, 1)
    IN  IF v2.thrown # NoError THEN v2 ELSE visitTypeAfter(v2, [type |-> type])

\* the for loop of visitDocumentAfter over requests, from request i on
RECURSIVE acceptRequests(_, _, _)
acceptRequests(v, requests, i) ==
    IF i > Len(requests) \/ v.thrown # NoError THEN v
    ELSE acceptRequests(acceptType(v, requests[i]), requests, i + 1)

\* the list is emptied once its messages are written
visitDocumentAfter_Reset(v, context) ==
    LET v1 == acceptRequests(v, v.requestTypes, 1)
    IN  IF v1.thrown # NoError THEN v1 ELSE [v1 EXCEPT !.requestTypes = <<>>]

visitDocumentAfter(v, context) == acceptRequests(v, v.requestTypes, 1)

-----------------------------------------------------------------------------
(* The documents: every sequence of at most MaxDefs distinct definitions   *)
(* of Pool, in any declaration order.                                      *)

AddOperation ==
    OperationDefinition("add", "Adds two numbers",
        <<ParameterDefinition("a", Named("i32"), FieldNum(1)),
          ParameterDefinition("b", Named("i32"), FieldNum(2))>>,
        Named("i32"), FALSE)

PingOperation ==
    OperationDefinition("ping", NoDescription,
        <<ParameterDefinition("x", Named("Point"), <<>>)>>,
        Named("void"), TRUE)

GetUserOperation ==
    OperationDefinition("getUser", NoDescription,
        <<ParameterDefinition("id", Named("string"), FieldNum(1))>>,
        Optional(Named("UserInfo")), FALSE)

ListAllOperation ==
    OperationDefinition("listAll", NoDescription,
        <<ParameterDefinition("tags", Optional(ListType(Named("string"))), <<>>)>>,
        ListType(Named("UserInfo")), TRUE)

\* a non-unary operation whose first parameter has no fieldnum
ResetOperation ==
    OperationDefinition("reset", NoDescription,
        <<ParameterDefinition("force", Named("boolean"), <<>>),
          ParameterDefinition("id", Named("string"), FieldNum(2))>>,
        Named("void"), FALSE)

\* a non-unary operation without parameters
PingAllOperation ==
    OperationDefinition("ping", NoDescription, <<>>, Named("void"), FALSE)

Pool ==
    << RoleDefinition("Calc", "Calculator", <<AddOperation, PingOperation>>),
       RoleDefinition("Admin", "Administration", <<ResetOperation, PingOperation>>),
       RoleDefinition("Users", NoDescription,
                      <<GetUserOperation, ListAllOperation, PingAllOperation>>),
       RoleDefinition("Broken", NoDescription, <<ResetOperation, PingOperation>>),
       TypeDefinition(NoLoc, "point", "A point", <<>>, <<>>,
           <<FieldDefinition(NoLoc, "x", NoDescription, Named("f64"), Undefined, FieldNum(1)),
             FieldDefinition(NoLoc, "y", "ordinate", Named("f64"), Undefined, FieldNum(2))>>),
       TypeDefinition(NoLoc, "UserInfo", NoDescription, <<>>, <<>>,
           <<FieldDefinition(NoLoc, "userId", NoDescription, Named("string"),
                             Undefined, FieldNum(1)),
             FieldDefinition(NoLoc, "tags", NoDescription, ListType(Named("string")),
                             Undefined, <<>>),
             FieldDefinition(NoLoc, "email", NoDescription, Optional(Named("string")),
                             Undefined, FieldNum(3))>>),
       TypeDefinition(NoLoc, "Circle", NoDescription, <<>>, <<>>,
           <<FieldDefinition(NoLoc, "point", "centre", Named("Point"), Undefined,
                             FieldNum(1)),
             FieldDefinition(NoLoc, "tags", "labels",
                             MapType(Named("string"), OtherKind), Undefined,
                             FieldNum(2))>>),
       EnumDefinition("color", "Colours",
           <<EnumValueDefinition("red", 0), EnumValueDefinition("darkBlue", 5)>>),
       UnionDefinition("shape", "A shape", <<Named("Point"), Named("Circle")>>),
       UnionDefinition("many", NoDescription,
           <<Named("i32"), ListType(Named("i32"))>>) >>

\* the node d as the i-th definition of document n: every node gets its loc
Locate(d, n, i) ==
    CASE d.kind = "RoleDefinition" ->
            [d EXCEPT !.loc = Loc(n, i, 0, 0),
                      !.operations =
                          [j \in DOMAIN d.operations |->
                              [d.operations[j] EXCEPT
                                  !.loc = Loc(n, i, j, 0),
                                  !.parameters =
                                      [k \in DOMAIN d.operations[j].parameters |->
                                          [d.operations[j].parameters[k] EXCEPT
                                              !.loc = Loc(n, i, j, k)]]]]]
      [] d.kind = "TypeDefinition" ->
            [d EXCEPT !.loc = Loc(n, i, 0, 0),
                      !.fields = [k \in DOMAIN d.fields |->
                                     [d.fields[k] EXCEPT !.loc = Loc(n, i, 0, k)]]]
      [] d.kind = "EnumDefinition" ->
            [d EXCEPT !.loc = Loc(n, i, 0, 0),
                      !.values = [k \in DOMAIN d.values |->
                                     [d.values[k] EXCEPT !.loc = Loc(n, i, 0, k)]]]
      [] OTHER -> [d EXCEPT !.loc = Loc(n, i, 0, 0)]

\* the choices of at most max definitions: sequences of distinct positions of Pool
Choices(max) ==
    { c \in UNION { [1..n -> DOMAIN Pool] : n \in 0..max } :
        \A i, j \in DOMAIN c : i # j => c[i] # c[j] }

Document(c, n) ==
    [kind |-> "Document", loc |-> Loc(n, 0, 0, 0),
     namespace |-> [name |-> "pkg.demo"],
     definitions |-> [i \in DOMAIN c |-> Locate(Pool[c[i]], n, i)]]

NoDocument == Document(<<>>, 0)

-----------------------------------------------------------------------------
(* Document.accept: the order in which the callbacks are made *)

RECURSIVE Flatten(_)
Flatten(ss) == IF ss = <<>> THEN <<>> ELSE Head(ss) \o Flatten(Tail(ss))

OfKind(document, kind) == SelectSeq(document.definitions, LAMBDA d : d.kind = kind)

Call(visit, context) == [visit |-> visit, context |-> context]

RoleCalls(role) ==
    <<Call("visitRoleBefore", [role |-> role])>>
    \o Flatten([j \in DOMAIN role.operations |->
          <<Call("visitOperationBefore", [role |-> role, operation |-> role.operations[j]]),
            Call("visitOperationAfter", [role |-> role, operation |-> role.operations[j]])>>])
    \o <<Call("visitRoleAfter", [role |-> role])>>

TypeCalls(type) ==
    <<Call("visitTypeBefore", [type |-> type])>>
    \o [k \in DOMAIN type.fields |->
          Call("visitTypeField", [type |-> type, field |-> type.fields[k]])]
    \o <<Call("visitTypeAfter", [type |-> type])>>

EnumCalls(e) ==
    <<Call("visitEnumBefore", [enum |-> e])>>
    \o [k \in DOMAIN e.values |->
          Call("visitEnumValue", [enum |-> e, enumValue |-> e.values[k]])]
    \o <<Call("visitEnumAfter", [enum |-> e])>>

Traversal(document) ==
    LET top == [document |-> document, namespace |-> document.namespace]
        roles == OfKind(document, "RoleDefinition")
        types == OfKind(document, "TypeDefinition")
        enums == OfKind(document, "EnumDefinition")
        unions == OfKind(document, "UnionDefinition")
    IN  <<Call("visitDocumentBefore", top), Call("visitNamespace", top)>>
        \o Flatten([i \in DOMAIN roles |-> RoleCalls(roles[i])])
        \o Flatten([i \in DOMAIN types |-> TypeCalls(types[i])])
        \o Flatten([i \in DOMAIN enums |-> EnumCalls(enums[i])])
        \o [i \in DOMAIN unions |-> Call("visitUnion", [union |-> unions[i]])]
        \o <<Call("visitDocumentAfter", top)>>

-----------------------------------------------------------------------------
(* The state machine *)

NotCalled == Returned(Undefined)

Init ==
    /\ doc = NoDocument
    /\ docNo = 0
    /\ pending = <<>>
    /\ out = <<>>
    /\ requestTypes = <<>>
    /\ thrown = NoError
    /\ carried = <<>>
    /\ sigIn = OtherKind
    /\ sigOut = NotCalled

\* the visitor as the callbacks see it
V == [out |-> out, requestTypes |-> requestTypes, thrown |-> thrown]

Next_(visit) == pending # <<>> /\ Head(pending).visit = visit

\* the callback returned (or threw, which ends the traversal)
Becomes(v) ==
    /\ out' = v.out
    /\ requestTypes' = v.requestTypes
    /\ thrown' = v.thrown
    /\ pending' = IF v.thrown # NoError THEN <<>> ELSE Tail(pending)
    /\ UNCHANGED <<doc, docNo, carried, sigIn, sigOut>>

\* document.accept(context, visitor) begins: the callbacks of Document(c, n)
\* are to be made, and the sink holds the text of this document only
Accept(c) ==
    /\ doc' = Document(c, docNo + 1)
    /\ pending' = Traversal(Document(c, docNo + 1))
    /\ docNo' = docNo + 1
    /\ out' = <<>>
    /\ carried' = requestTypes
    /\ UNCHANGED <<requestTypes, thrown, sigIn, sigOut>>

\* a new visitor is given its document
AcceptDocument ==
    /\ docNo = 0
    /\ \E c \in Choices(MaxDefs) : Accept(c)

\* a visitor is given a document: its first, or the next one after a
\* traversal that ended without an Error
AcceptAgain ==
    /\ pending = <<>>
    /\ thrown = NoError
    /\ docNo < MaxDocs
    /\ \E c \in Choices(MaxReuseDefs) : Accept(c)

VisitDocumentBefore ==
    Next_("visitDocumentBefore") /\ Becomes(visitDocumentBefore(V, Head(pending).context))

VisitNamespace ==
    Next_("visitNamespace") /\ Becomes(visitNamespace(V, Head(pending).context))

VisitRoleBefore ==
    Next_("visitRoleBefore") /\ Becomes(visitRoleBefore(V, Head(pending).context))

VisitOperationBefore ==
    Next_("visitOperationBefore") /\ Becomes(visitOperationBefore(V, Head(pending).context))

VisitOperationAfter ==
    Next_("visitOperationAfter") /\ Becomes(visitOperationAfter(V, Head(pending).context))

VisitRoleAfter ==
    Next_("visitRoleAfter") /\ Becomes(visitRoleAfter(V, Head(pending).context))

VisitTypeBefore ==
    Next_("visitTypeBefore") /\ Becomes(visitTypeBefore(V, Head(pending).context))

VisitTypeField ==
    Next_("visitTypeField") /\ Becomes(visitTypeField(V, Head(pending).context))

VisitTypeAfter ==
    Next_("visitTypeAfter") /\ Becomes(visitTypeAfter(V, Head(pending).context))

VisitEnumBefore ==
    Next_("visitEnumBefore") /\ Becomes(visitEnumBefore(V, Head(pending).context))

VisitEnumValue ==
    Next_("visitEnumValue") /\ Becomes(visitEnumValue(V, Head(pending).context))

VisitEnumAfter ==
    Next_("visitEnumAfter") /\ Becomes(visitEnumAfter(V, Head(pending).context))

VisitUnion ==
    Next_("visitUnion") /\ Becomes(visitUnion(V, Head(pending).context))

VisitDocumentAfter ==
    Next_("visitDocumentAfter") /\ Becomes(visitDocumentAfter(V, Head(pending).context))

Visit ==
    \/ VisitDocumentBefore
    \/ VisitNamespace
    \/ VisitRoleBefore
    \/ VisitOperationBefore
    \/ VisitOperationAfter
    \/ VisitRoleAfter
    \/ VisitTypeBefore
    \/ VisitTypeField
    \/ VisitTypeAfter
    \/ VisitEnumBefore
    \/ VisitEnumValue
    \/ VisitEnumAfter
    \/ VisitUnion
    \/ VisitDocumentAfter

\* one visitor per document
Next == AcceptDocument \/ Visit

Spec == Init /\ [][Next]_vars

\* one visitor given document after document
NextReuse == AcceptAgain \/ Visit

SpecReuse == Init /\ [][NextReuse]_vars

-----------------------------------------------------------------------------
(* The resolver alone: typeSignature applied to every Type of bounded depth *)

ScalarNames == DOMAIN scalarTypeMap

\* names at the top of a Type: the scalars, and names that are none
TopNames == ScalarNames \cup {"MyType", "I32", "void", ""}

\* names inside wrappers
InnerNames == {"i64", "MyType"}

Wrappers(S) ==
    {ListType(t) : t \in S} \cup {Optional(t) : t \in S}
        \cup {MapType(k, w) : k \in S, w \in S}

RECURSIVE InnerTypes(_)
InnerTypes(d) ==
    IF d = 0 THEN {Named(n) : n \in InnerNames} \cup {OtherKind}
    ELSE InnerTypes(0) \cup Wrappers(InnerTypes(d - 1))

SigInputs ==
    {Named(n) : n \in TopNames} \cup {OtherKind}
        \cup (IF MaxDepth = 0 THEN {} ELSE Wrappers(InnerTypes(MaxDepth - 1)))

InitSig ==
    /\ doc = NoDocument
    /\ docNo = 0
    /\ pending = <<>>
    /\ out = <<>>
    /\ requestTypes = <<>>
    /\ thrown = NoError
    /\ carried = <<>>
    /\ sigIn \in SigInputs
    /\ sigOut = NotCalled

CallTypeSignature ==
    /\ sigOut = NotCalled
    /\ sigOut' = typeSignature(sigIn)
    /\ UNCHANGED <<doc, docNo, pending, out, requestTypes, thrown, carried, sigIn>>

NextSig == CallTypeSignature

SpecSig == InitSig /\ [][NextSig]_vars

-----------------------------------------------------------------------------
(* Vocabulary of the properties *)

\* the traversal of the current document ended without an Error
Done == docNo > 0 /\ pending = <<>> /\ thrown = NoError

TypeCallbacks == {"visitTypeBefore", "visitTypeField", "visitTypeAfter"}

\* a chunk written for a synthesized request: its node is an operation's
Synthesized(c) == c.by \in TypeCallbacks /\ c.loc.op > 0

\* the section of the file a chunk belongs to: 1 syntax, 2 package, 3 services,
\* 4 declared messages, 5 enums, 6 unions, 7 synthesized requests
Section(c) ==
    CASE c.by = "visitDocumentBefore" -> 1
      [] c.by = "visitNamespace" -> 2
      [] c.by \in {"visitRoleBefore", "visitRoleAfter", "visitOperationBefore"} -> 3
      [] c.by \in TypeCallbacks /\ c.loc.op = 0 -> 4
      [] c.by \in {"visitEnumBefore", "visitEnumValue", "visitEnumAfter"} -> 5
      [] c.by = "visitUnion" -> 6
      [] c.by \in TypeCallbacks /\ c.loc.op > 0 -> 7

\* the definition, and the operation, a loc of the current document names
DefAt(loc) == doc.definitions[loc.def]

OpAt(loc) == doc.definitions[loc.def].operations[loc.op]

Roles == OfKind(doc, "RoleDefinition")

Included(role) == shouldIncludeHandler([role |-> role])

\* the non-unary operations of the included roles, in the order visited
IncludedNonUnary ==
    Flatten([i \in DOMAIN Roles |->
        IF Included(Roles[i])
        THEN SelectSeq(Roles[i].operations, LAMBDA o : ~o.unary)
        ELSE <<>>])

\* the chunks written for the node at loc (or for its fields)
ChunksOf(loc) == SelectSeq(out, LAMBDA c : [c.loc EXCEPT !.item = 0] = loc)

\* the message headers of the synthesized requests, in the order written
RequestHeaders == SelectSeq(out, LAMBDA c : Synthesized(c) /\ c.part = "header")

\* the field line the visitor writes for a field
FieldLine(field) ==
    "  " \o typeSignature(field.type).value \o " " \o snakeCase(field.name)
         \o " = " \o ToString(annotation(field, "fieldnum").value) \o ";\n"

IsPrefix(s, t) == Len(s) <= Len(t) /\ SubSeq(t, 1, Len(s)) = s

-----------------------------------------------------------------------------
(* C1: the output is written section by section in the fixed order syntax, *)
(* package, services, declared messages, enums, unions, synthesized        *)
(* requests: the syntax line is the first text written, no text of an      *)
(* earlier section follows text of a later one whatever the declaration    *)
(* order is, and inside a section the blocks follow the declaration order. *)
C1_SectionOrder ==
    /\ out # <<>> =>
          /\ out[1].by = "visitDocumentBefore"
          /\ out[1].text = "syntax = \"proto3\";\n\n"
    /\ \A i, j \in DOMAIN out :
          i < j =>
             /\ Section(out[i]) <= Section(out[j])
             /\ Section(out[i]) = Section(out[j]) =>
                   \/ out[i].loc.def < out[j].loc.def
                   \/ /\ out[i].loc.def = out[j].loc.def
                      /\ (out[i].loc.op > 0 /\ out[j].loc.op > 0) =>
                            out[i].loc.op <= out[j].loc.op

\* a document that declares a type before a role was written to its end,
\* services first, then the message, then the synthesized request
C1_Witness ==
    /\ Done
    /\ Len(doc.definitions) >= 2
    /\ doc.definitions[1].kind = "TypeDefinition"
    /\ doc.definitions[2].kind = "RoleDefinition"
    /\ \E i, j, k \in DOMAIN out :
          /\ Section(out[i]) = 3
          /\ Section(out[j]) = 4
          /\ Section(out[k]) = 7

-----------------------------------------------------------------------------
(* C2: when a traversal ends, every included non-unary operation with N    *)
(* parameters has exactly one synthesized message <PascalCase(op)>Request  *)
(* with exactly N field lines in parameter order; the synthesized messages *)
(* come in the order their operations were visited, and at any moment      *)
(* every text of a synthesized message comes after every text of the       *)
(* services, types, enums and unions.                                      *)
C2_SynthesizedRequests ==
    /\ \A i, j \in DOMAIN out :
          Synthesized(out[i]) /\ ~Synthesized(out[j]) => j < i
    /\ Done =>
          /\ Len(RequestHeaders) = Len(IncludedNonUnary)
          /\ \A n \in DOMAIN IncludedNonUnary :
                LET op == IncludedNonUnary[n]
                    lines == SelectSeq(ChunksOf(op.loc),
                                LAMBDA c : Synthesized(c) /\ c.part = "field")
                IN  /\ RequestHeaders[n].loc = op.loc
                    /\ RequestHeaders[n].text =
                          "message " \o pascalCase(op.name) \o "Request {\n"
                    /\ Len(lines) = Len(op.parameters)
                    /\ \A k \in DOMAIN lines :
                          /\ lines[k].loc = op.parameters[k].loc
                          /\ lines[k].text = FieldLine(op.parameters[k])

\* a traversal ended that wrote a declared message and the request of a
\* two-parameter operation
C2_Witness ==
    /\ Done
    /\ \E n \in DOMAIN IncludedNonUnary : Len(IncludedNonUnary[n].parameters) = 2
    /\ \E j \in DOMAIN out : Section(out[j]) = 4
    /\ Len(RequestHeaders) >= 1

-----------------------------------------------------------------------------
(* C3: the request type in the rpc line of an included unary operation is  *)
(* the resolved signature of its single parameter: it comes from the       *)
(* parameter, not from a synthesized request, the visit adds nothing to    *)
(* requestTypes, and no trailing message is written for the operation.     *)
C3_UnaryRequest ==
    \A i \in DOMAIN out :
        (out[i].by = "visitOperationBefore" /\ out[i].part = "request"
            /\ OpAt(out[i].loc).unary) =>
           LET op == OpAt(out[i].loc)
           IN  /\ out[i].text = typeSignature(op.parameters[1].type).value
               /\ \A n \in DOMAIN requestTypes : requestTypes[n].loc # op.loc
               /\ \A j \in DOMAIN out :
                     Synthesized(out[j]) => [out[j].loc EXCEPT !.item = 0] # op.loc

\* a traversal ended in which a unary operation with a wrapped parameter
\* type was written beside operations that were synthesized
C3_Witness ==
    /\ Done
    /\ requestTypes # <<>>
    /\ \E i \in DOMAIN out :
          /\ out[i].by = "visitOperationBefore"
          /\ out[i].part = "request"
          /\ OpAt(out[i].loc).unary
          /\ out[i].text = "optional repeated string"

-----------------------------------------------------------------------------
(* C4: nothing is written for a role the inclusion predicate rejects, nor  *)
(* for any of its operations: no comment, no service header or brace, no   *)
(* rpc line, and none of its operations enters requestTypes.               *)
C4_ExcludedRole ==
    \A r \in DOMAIN Roles :
        ~Included(Roles[r]) =>
           /\ \A i \in DOMAIN out :
                 /\ out[i].loc.def # Roles[r].loc.def
                 /\ out[i].text # "service " \o Roles[r].name \o " {\n"
           /\ \A n \in DOMAIN requestTypes :
                 requestTypes[n].loc.def # Roles[r].loc.def

\* a traversal ended on a document with a rejected role, declared first,
\* and an included role
C4_Witness ==
    /\ Done
    /\ Len(doc.definitions) >= 2
    /\ doc.definitions[1].kind = "RoleDefinition"
    /\ ~Included(doc.definitions[1])
    /\ \E i \in DOMAIN out : out[i].part = "rpc"

-----------------------------------------------------------------------------
(* C5: a field without fieldnum, in a declared message or in a synthesized *)
(* request, ends the emission with an Error at that field: no line is      *)
(* written for it or for a later field, the closing brace of the message   *)
(* is never written, and nothing is written after the Error.               *)

\* the declared messages of the document and the synthesized requests
Messages ==
    {doc.definitions[i] : i \in {j \in DOMAIN doc.definitions :
                                    doc.definitions[j].kind = "TypeDefinition"}}
        \cup {requestTypes[n] : n \in DOMAIN requestTypes}

Unnumbered(T) ==
    {k \in DOMAIN T.fields : annotation(T.fields[k], "fieldnum") = NoAnnotation}

FirstUnnumbered(T) == CHOOSE k \in Unnumbered(T) : \A m \in Unnumbered(T) : k <= m

MessageChunks(T) ==
    SelectSeq(out, LAMBDA c : c.by \in TypeCallbacks /\ [c.loc EXCEPT !.item = 0] = T.loc)

RequiresFieldnum(T, k) == T.name \o "." \o T.fields[k].name \o " requires a @fieldnum"

\* the emission of T has come to field k: the header, and the line of the
\* field before it, are written
CameTo(T, k) ==
    LET cs == MessageChunks(T)
    IN  /\ cs # <<>>
        /\ k > 1 => \E i \in DOMAIN cs : cs[i].part = "field" /\ cs[i].loc.item = k - 1

\* C5: for every message with a field without fieldnum, nothing is written
\* for that field or after it, and the Error is thrown when it is reached
C5_MissingFieldnum ==
    \A T \in Messages :
        Unnumbered(T) # {} =>
           LET k == FirstUnnumbered(T)
               cs == MessageChunks(T)
           IN  /\ \A i \in DOMAIN cs :
                     /\ cs[i].by = "visitTypeField" => cs[i].loc.item < k
                     /\ cs[i].by # "visitTypeAfter"
               /\ CameTo(T, k) =>
                     \/ thrown = RequiresFieldnum(T, k)
                     \/ /\ pending # <<>>
                        /\ Head(pending).visit = "visitTypeField"
                        /\ Head(pending).context.field.loc = T.fields[k].loc
               /\ (CameTo(T, k) /\ thrown = RequiresFieldnum(T, k)) =>
                     /\ pending = <<>>
                     /\ [out[Len(out)].loc EXCEPT !.item = 0] = T.loc
                     /\ out[Len(out)].by \in TypeCallbacks
                     /\ out[Len(out)].part = IF k = 1 THEN "header" ELSE "field"
                     /\ out[Len(out)].loc.item = k - 1

\* the emission of the declared message UserInfo failed at its second
\* field, after the line of the first
C5_Witness ==
    /\ thrown = "UserInfo.tags requires a @fieldnum"
    /\ out[Len(out)].by = "visitTypeField"
    /\ out[Len(out)].text = "  string user_id = 1;\n"

-----------------------------------------------------------------------------
(* C6: the oneof field lines of a union *)

Unions == OfKind(doc, "UnionDefinition")

UnionChunks(u, part) ==
    SelectSeq(out, LAMBDA c : c.by = "visitUnion" /\ c.part = part
                                 /\ c.loc.def = u.loc.def)

MemberLine(t, i) ==
    "    " \o typeSignature(t).value \o " " \o snakeCase(t.name) \o "_value = "
           \o ToString(i) \o ";\n"

\* the position of the first member that is no Named type (past the end
\* when all are)
FirstUnnamed(u) ==
    IF \A i \in DOMAIN u.types : u.types[i].kind = "Named" THEN Len(u.types) + 1
    ELSE CHOOSE k \in DOMAIN u.types :
            /\ u.types[k].kind # "Named"
            /\ \A m \in 1..(k - 1) : u.types[m].kind = "Named"

-----------------------------------------------------------------------------
(* C7: typeSignature is the recursive function Resolve on every Type of    *)
(* bounded depth: a Named type gives its entry of the scalar table, or its *)
(* name unchanged when the table has none; List, Map and Optional put      *)
(* 'repeated ', 'map<K, V>' and 'optional ' around the resolved inner      *)
(* types, one prefix per layer; any other variant is a fatal error and no  *)
(* string is returned.                                                     *)

Fatal == "<fatal>"

ScalarEntry(n) ==
    CASE n \in {"i8", "i16", "i32"} -> "int32"
      [] n = "i64" -> "int64"
      [] n \in {"u8", "u16", "u32"} -> "uint32"
      [] n = "u64" -> "uint64"
      [] n = "f32" -> "float"
      [] n = "f64" -> "double"
      [] n = "string" -> "string"
      [] n = "bytes" -> "bytes"
      [] n = "boolean" -> "bool"
      [] n \in {"date", "datetime"} -> "google.protobuf.Timestamp"
      [] n = "raw" -> "google.protobuf.Any"
      [] OTHER -> n

RECURSIVE Resolve(_)
Resolve(t) ==
    IF t.kind = "Named" THEN ScalarEntry(t.name)
    ELSE IF t.kind \in {"ListType", "Optional"}
    THEN IF Resolve(t.type) = Fatal THEN Fatal
         ELSE (IF t.kind = "ListType" THEN "repeated " ELSE "optional ")
                 \o Resolve(t.type)
    ELSE IF t.kind = "MapType"
    THEN IF Resolve(t.keyType) = Fatal \/ Resolve(t.valueType) = Fatal THEN Fatal
         ELSE "map<" \o Resolve(t.keyType) \o ", " \o Resolve(t.valueType) \o ">"
    ELSE Fatal

\* C7: what typeSignature gave for sigIn is what Resolve gives, a fatal
\* error where Resolve has none to give
C7_Resolver ==
    sigOut # NotCalled =>
       IF Resolve(sigIn) = Fatal THEN sigOut.threw
       ELSE ~sigOut.threw /\ sigOut.value = Resolve(sigIn)

\* an optional list of a scalar was resolved, one prefix per layer
C7_Witness ==
    /\ sigIn = Optional(ListType(Named("i64")))
    /\ sigOut = Returned("optional repeated int64")

-----------------------------------------------------------------------------
(* C8: requestTypes is not reset between documents.  A visitor given one   *)
(* document after another keeps the requests of the earlier documents: the *)
(* list only grows, and when the traversal of a document ends the output   *)
(* for it ends with the messages of the requests carried over from the     *)
(* earlier documents followed by those of its own included non-unary       *)
(* operations.                                                             *)
C8_NotReset ==
    /\ IsPrefix(carried, requestTypes)
    /\ \A n \in DOMAIN carried : carried[n].loc.doc < docNo
    /\ \A i, j \in DOMAIN out : (i < j /\ Synthesized(out[i])) => Synthesized(out[j])
    /\ Done =>
          /\ Len(requestTypes) = Len(carried) + Len(IncludedNonUnary)
          /\ \A n \in DOMAIN IncludedNonUnary :
                /\ requestTypes[Len(carried) + n].loc = IncludedNonUnary[n].loc
                /\ requestTypes[Len(carried) + n].name
                      = pascalCase(IncludedNonUnary[n].name) \o "Request"
          /\ Len(RequestHeaders) = Len(requestTypes)
          /\ \A n \in DOMAIN requestTypes :
                /\ RequestHeaders[n].loc = requestTypes[n].loc
                /\ RequestHeaders[n].text
                      = "message " \o pascalCase(requestTypes[n].name) \o " {\n"

\* the traversal of a second document ended, with requests carried over
\* from the first and requests of its own
C8_Witness ==
    /\ Done
    /\ docNo = 2
    /\ carried # <<>>
    /\ Len(requestTypes) > Len(carried)
    /\ RequestHeaders[1].loc.doc = 1
    /\ RequestHeaders[Len(RequestHeaders)].loc.doc = 2

-----------------------------------------------------------------------------
(* C9: the response type in the rpc line of an included operation, unary   *)
(* or not, is Empty when the return type denotes no value and the resolved *)
(* signature of the return type otherwise.                                 *)
C9_ResponseType ==
    \A i \in DOMAIN out :
        /\ out[i].part = "response" =>
              out[i].text = IF isVoid(OpAt(out[i].loc).type) THEN "Empty"
                            ELSE typeSignature(OpAt(out[i].loc).type).value
        /\ (out[i].by = "visitOperationBefore" /\ out[i].part = "end") =>
              Len(SelectSeq(out, LAMBDA c : c.part = "response"
                                              /\ c.loc = out[i].loc)) = 1

\* a traversal ended that wrote a unary operation returning a list and a
\* non-unary operation returning no value
C9_Witness ==
    /\ Done
    /\ \E i, j \in DOMAIN out :
          /\ out[i].part = "response"
          /\ OpAt(out[i].loc).unary
          /\ out[i].text = "repeated UserInfo"
          /\ out[j].part = "response"
          /\ ~OpAt(out[j].loc).unary
          /\ out[j].text = "Empty"

-----------------------------------------------------------------------------
(* C10: a parameter without fieldnum of an included non-unary operation is *)
(* found only in the pass over requestTypes at the end: when its Error is  *)
(* thrown, the rpc line naming <PascalCase(op)>Request, every other rpc    *)
(* line, every declared message, enum and union and the header of the      *)
(* failing request message are in the output.                              *)

UnnumberedOps == SelectSeq(IncludedNonUnary, LAMBDA o : Unnumbered(
                    [fields |-> o.parameters]) # {})

\* the Error for the first parameter without fieldnum of operation o
RequestError(o) ==
    pascalCase(o.name) \o "Request."
        \o o.parameters[FirstUnnumbered([fields |-> o.parameters])].name
        \o " requires a @fieldnum"

Wrote(by, part, loc) ==
    \E i \in DOMAIN out : out[i].by = by /\ out[i].part = part /\ out[i].loc = loc

\* C10: when the Error of the first request with a parameter without
\* fieldnum is thrown, all services and primary sections are written
C10_LateDetection ==
    (UnnumberedOps # <<>> /\ thrown = RequestError(UnnumberedOps[1])) =>
       LET o == UnnumberedOps[1]
       IN  /\ \E i \in DOMAIN out :
                 /\ out[i].part = "request"
                 /\ out[i].loc = o.loc
                 /\ out[i].text = pascalCase(o.name) \o "Request"
           /\ \A r \in DOMAIN Roles :
                 Included(Roles[r]) =>
                    /\ Wrote("visitRoleAfter", "close", Roles[r].loc)
                    /\ \A j \in DOMAIN Roles[r].operations :
                          Wrote("visitOperationBefore", "end",
                                Roles[r].operations[j].loc)
           /\ \A d \in DOMAIN doc.definitions :
                 LET def == doc.definitions[d]
                 IN  /\ def.kind = "TypeDefinition" =>
                            Wrote("visitTypeAfter", "close", def.loc)
                     /\ def.kind = "EnumDefinition" =>
                            Wrote("visitEnumAfter", "close", def.loc)
                     /\ def.kind = "UnionDefinition" =>
                            Wrote("visitUnion", "close", def.loc)
           /\ Wrote("visitTypeBefore", "header", o.loc)
           /\ ~Wrote("visitTypeAfter", "close", o.loc)

\* the request of reset failed at its first parameter, in a document that
\* also declares a message and an enum
C10_Witness ==
    /\ thrown = "ResetRequest.force requires a @fieldnum"
    /\ \E i, j \in DOMAIN out : Section(out[i]) = 4 /\ Section(out[j]) = 5
    /\ out[Len(out)].text = "message ResetRequest {\n"

=============================================================================
